---- MODULE Spec2Model ----
(***************************************************************************)
(* Model of app/db/connect.py: the DatabaseConnection manager              *)
(* (_get_available_driver, _init_connection, get_session, _close,          *)
(* get_connection).                                                        *)
(*                                                                         *)
(* A manager is driven sequentially by one caller.  _init_connection is    *)
(* modelled one loop iteration per step (every iteration ends in a         *)
(* return, a raise or a sleep); get_session is modelled as the part that   *)
(* runs up to the yield and the part that runs when the with-block ends;   *)
(* _close is one step; get_connection is modelled as its entry (which      *)
(* calls _init_connection) and its exit (which calls _close).              *)
(* The collaborators (pyodbc.drivers, create_engine,  *)
(* Engine.connect, the Session methods, the with-block body) are inputs:   *)
(* each step draws their outcome from a small set.                         *)
(***************************************************************************)
EXTENDS Naturals, Sequences, FiniteSets, TLC

VARIABLES
    hostDrivers,    \* what pyodbc.drivers() returns on this host
    engine,         \* self._engine: None or the id of an engine
    session_maker,  \* self._session_maker: None or the id of the engine it is bound to
    engines,        \* engines[i]: how many times dispose() ran on the i-th engine created
    state,          \* lifecycle phase of the manager
    pc,             \* "idle", or "connecting" while _init_connection is running
    attempt,        \* loop variable of _init_connection
    driver,         \* driver resolved by the current/last attempt ("" before any)
    opens,          \* create_engine calls made by the current/last _init_connection
    fails,          \* failures caught by the except clause in that call
    sleeps,         \* arguments of the sleep() calls of that call, in order
    initResult,     \* how the current/last _init_connection ended
    inits,          \* _init_connection calls so far
    session,        \* the session of the current/last get_session scope
    getResult,      \* how the last get_session call began
    getState,       \* lifecycle phase the manager was in at that call
    sessions,       \* get_session calls so far
    closeRun,       \* for the current run of successive _close calls: did each dispose()
    everConnected,  \* an _init_connection call has returned normally
    target,         \* self._db, self._host, self._port, self._timeout
    createArgs,     \* arguments of the last create_engine call of the current/last _init_connection
    lastError,      \* what the last attempt of that call raised ("none" if nothing)
    probed,         \* probed[i]: how the engine.connect() probe of the i-th engine ended
    facade          \* the get_connection context manager, when the manager is used through it

vars == <<hostDrivers, engine, session_maker, engines, state, pc, attempt, driver,
          opens, fails, sleeps, initResult, inits, session, getResult, getState,
          sessions, closeRun, everConnected, target, createArgs, lastError, probed,
          facade>>

(***************************************************************************)
(* Bounds of the model.                                                    *)
(***************************************************************************)
MaxInits == 1
MaxSessions == 2
MaxCloses == 2

(***************************************************************************)
(* Program constants.                                                      *)
(***************************************************************************)
None == 0

SUPPORTED_DRIVERS ==
    { "ODBC Driver 17 for SQL Server",
      "ODBC Driver 13 for SQL Server",
      "SQL Server Native Client 11.0" }

\* Drivers a host may have installed: the supported ones and one that is not.
HostDriverNames == SUPPORTED_DRIVERS \cup { "Other Driver" }

\* _max_retries, _init_delay, _backoff_factor
max_retries == 3
init_delay == 1
backoff_factor == 2

\* Connection targets: the one of main.py and the one of the unit tests.
Targets ==
    { [db |-> "sample", host |-> "localhost", port |-> 1433, timeout |-> 30],
      [db |-> "test_db", host |-> "test_host", port |-> 1433, timeout |-> 30] }

\* What create_engine or Engine.connect may raise: an OperationalError, another
\* SQLAlchemyError (e.g. ArgumentError), or an exception outside SQLAlchemy.
FailureKinds == { "OperationalError", "SQLAlchemyError", "Exception" }

(***************************************************************************)
(* _get_available_driver                                                   *)
(***************************************************************************)
AvailableDriversAnyInstalled == hostDrivers

\* available_drivers = self.SUPPORTED_DRIVERS.intersection(pyodbc.drivers())
AvailableDrivers == SUPPORTED_DRIVERS \cap hostDrivers

(***************************************************************************)
(* _init_connection                                                        *)
(***************************************************************************)
ConnectionStringWithTimeout(d) ==
    "mssql+pyodbc://" \o target.host \o ":" \o ToString(target.port) \o "/"
        \o target.db \o "?" \o "driver=" \o d \o "&trusted_connection=yes"
        \o "&timeout=" \o ToString(target.timeout)

\* connection_string = f"mssql+pyodbc://{host}:{port}/{db}?driver={driver}&trusted_connection=yes"
ConnectionString(d) ==
    "mssql+pyodbc://" \o target.host \o ":" \o ToString(target.port) \o "/"
        \o target.db \o "?" \o "driver=" \o d \o "&trusted_connection=yes"

NoCall == [url |-> "", fast_executemany |-> FALSE, connect_args |-> <<>>]

\* create_engine(connection_string, fast_executemany=True, connect_args={"timeout": self._timeout})
CreateEngineArgs(d) ==
    [url |-> ConnectionString(d),
     fast_executemany |-> TRUE,
     connect_args |-> [timeout |-> target.timeout]]

NoFacade == [pc |-> "none", closes |-> 0, body |-> "none", raised |-> "none"]

CaughtAll(kind) == TRUE

CaughtOperationalOnly(kind) == kind = "OperationalError"

\* except (OperationalError, SQLAlchemyError)
Caught(kind) == kind \in { "OperationalError", "SQLAlchemyError" }

ShouldRetryEarlyStop(a) == a < max_retries - 2

ShouldRetryAlways(a) == TRUE

\* if attempt < _max_retries - 1
ShouldRetry(a) == a < max_retries - 1

DelayLinear(a) == init_delay * backoff_factor * a

\* delay = _init_delay * (_backoff_factor**attempt)
Delay(a) == init_delay * (backoff_factor ^ a)

\* An exception of the given kind leaves the try block of the current attempt.
Raise(kind) ==
    IF Caught(kind)
    THEN /\ fails' = fails + 1
         /\ IF ShouldRetry(attempt)
            THEN /\ sleeps' = Append(sleeps, Delay(attempt))
                 /\ attempt' = attempt + 1
                 /\ IF attempt + 1 < max_retries
                    THEN /\ pc' = "connecting"
                         /\ UNCHANGED <<initResult, state, everConnected>>
                    ELSE \* range(_max_retries) is exhausted: the function returns
                         /\ pc' = "idle"
                         /\ initResult' = "ok"
                         /\ state' = "Connected"
                         /\ everConnected' = TRUE
            ELSE /\ pc' = "idle"
                 /\ initResult' = "ConnectionFailed"
                 /\ state' = "Closed"
                 /\ UNCHANGED <<sleeps, attempt, everConnected>>
    ELSE /\ pc' = "idle"
         /\ initResult' = kind
         /\ state' = "Closed"
         /\ UNCHANGED <<fails, sleeps, attempt, everConnected>>

InitCall ==
    /\ facade.pc = "none"
    /\ pc = "idle"
    /\ inits < MaxInits
    /\ inits' = inits + 1
    /\ pc' = "connecting"
    /\ state' = "Connecting"
    /\ attempt' = 0
    /\ driver' = ""
    /\ opens' = 0
    /\ fails' = 0
    /\ sleeps' = <<>>
    /\ initResult' = "running"
    /\ closeRun' = <<>>
    /\ createArgs' = NoCall
    /\ lastError' = "none"
    /\ UNCHANGED <<hostDrivers, engine, session_maker, engines, session, getResult,
                   getState, sessions, everConnected, target, probed, facade>>

\* _get_available_driver raises: no supported driver is installed.
AttemptNoDriver ==
    /\ pc = "connecting"
    /\ AvailableDrivers = {}
    /\ Raise("NoDriverFound")
    /\ lastError' = "NoDriverFound"
    /\ UNCHANGED <<hostDrivers, engine, session_maker, engines, driver, opens, inits,
                   session, getResult, getState, sessions, closeRun, target,
                   createArgs, probed, facade>>

\* create_engine raises.
AttemptCreateFails ==
    /\ pc = "connecting"
    /\ \E d \in AvailableDrivers, kind \in FailureKinds :
          /\ driver' = d
          /\ createArgs' = CreateEngineArgs(d)
          /\ opens' = opens + 1
          /\ lastError' = kind
          /\ Raise(kind)
    /\ UNCHANGED <<hostDrivers, engine, session_maker, engines, inits, session,
                   getResult, getState, sessions, closeRun, target, probed, facade>>

\* create_engine and sessionmaker succeed, the engine.connect() probe raises.
AttemptProbeFails ==
    /\ pc = "connecting"
    /\ \E d \in AvailableDrivers, kind \in FailureKinds :
          /\ driver' = d
          /\ createArgs' = CreateEngineArgs(d)
          /\ opens' = opens + 1
          /\ engines' = Append(engines, 0)
          /\ engine' = Len(engines) + 1
          /\ session_maker' = Len(engines) + 1
          /\ probed' = Append(probed, "failed")
          /\ lastError' = kind
          /\ Raise(kind)
    /\ UNCHANGED <<hostDrivers, inits, session, getResult, getState, sessions,
                   closeRun, target, facade>>

\* create_engine, sessionmaker and the probe succeed: return.
AttemptSucceeds ==
    /\ pc = "connecting"
    /\ \E d \in AvailableDrivers :
          /\ driver' = d
          /\ createArgs' = CreateEngineArgs(d)
    /\ opens' = opens + 1
    /\ engines' = Append(engines, 0)
    /\ engine' = Len(engines) + 1
    /\ session_maker' = Len(engines) + 1
    /\ probed' = Append(probed, "ok")
    /\ lastError' = "none"
    /\ pc' = "idle"
    /\ initResult' = "ok"
    /\ state' = "Connected"
    /\ everConnected' = TRUE
    /\ UNCHANGED <<hostDrivers, attempt, fails, sleeps, inits, session, getResult,
                   getState, sessions, closeRun, target, facade>>

(***************************************************************************)
(* get_session                                                             *)
(***************************************************************************)
\* get_connection has yielded the manager and its with-block has not ended.
InBody == facade.pc = "entered" /\ pc = "idle" /\ initResult = "ok"

\* _init_connection raised inside get_connection: the error has left get_connection.
FacadeFailed ==
    facade.pc = "entered" /\ pc = "idle" /\ initResult \notin { "ok", "running" }

NoSession ==
    [phase |-> "none", bound |-> None, body |-> "none", ops |-> <<>>,
     failed |-> {}, raised |-> "none"]

\* How the with-block body ends: normally, with an Exception, or with a
\* BaseException that is no Exception (KeyboardInterrupt, SystemExit).
BodyOutcomes == { "ok", "BodyError", "BodyInterrupt" }

SessionMethods == { "commit", "rollback", "close" }

\* except Exception
IsException(exc) == exc \in { "BodyError", "CommitError", "RollbackError", "CloseError" }

TryBlockNoCommit(s, body, F) == [s EXCEPT !.body = body, !.raised = IF body = "ok" THEN "none" ELSE body]

TryBlockAlwaysCommit(s, body, F) ==
    [s EXCEPT !.body = body,
              !.ops = Append(@, "commit"),
              !.raised = IF body = "ok" THEN "none" ELSE body]

\* try: yield session; session.commit()
TryBlock(s, body, F) ==
    IF body = "ok"
    THEN [s EXCEPT !.body = body,
                   !.ops = Append(@, "commit"),
                   !.failed = IF "commit" \in F THEN @ \cup {"commit"} ELSE @,
                   !.raised = IF "commit" \in F THEN "CommitError" ELSE "none"]
    ELSE [s EXCEPT !.body = body, !.raised = body]

\* except Exception as e: session.rollback(); print(...); raise
ExceptBlock(s, F) ==
    IF IsException(s.raised)
    THEN [s EXCEPT !.ops = Append(@, "rollback"),
                   !.failed = IF "rollback" \in F THEN @ \cup {"rollback"} ELSE @,
                   !.raised = IF "rollback" \in F THEN "RollbackError" ELSE @]
    ELSE s

FinallyBlockOnSuccessOnly(s, F) ==
    IF s.raised = "none"
    THEN [s EXCEPT !.phase = "exited", !.ops = Append(@, "close")]
    ELSE [s EXCEPT !.phase = "exited"]

FinallyBlockNoClose(s, F) == [s EXCEPT !.phase = "exited"]

\* finally: session.close()
FinallyBlock(s, F) ==
    [s EXCEPT !.phase = "exited",
              !.ops = Append(@, "close"),
              !.failed = IF "close" \in F THEN @ \cup {"close"} ELSE @,
              !.raised = IF "close" \in F THEN "CloseError" ELSE @]

\* The part of get_session that runs when the with-block ends.
ExitScope(s, body, F) == FinallyBlock(ExceptBlock(TryBlock(s, body, F), F), F)

\* with connection.get_session() as session: the part up to the yield.
GetSession ==
    /\ facade.pc = "none" \/ InBody
    /\ pc = "idle"
    /\ session.phase # "open"
    /\ sessions < MaxSessions
    /\ sessions' = sessions + 1
    /\ getState' = state
    /\ closeRun' = <<>>
    /\ IF session_maker = None
       THEN /\ getResult' = "NotInitialized"
            /\ UNCHANGED session
       ELSE /\ getResult' = "session"
            /\ session' = [NoSession EXCEPT !.phase = "open", !.bound = session_maker]
    /\ UNCHANGED <<hostDrivers, engine, session_maker, engines, state, pc, attempt,
                   driver, opens, fails, sleeps, initResult, inits, everConnected,
                   target, createArgs, lastError, probed, facade>>

\* The with-block ends: body is how it ended, F the session methods that
\* raise if they are called.
SessionExit ==
    /\ pc = "idle"
    /\ session.phase = "open"
    /\ \E body \in BodyOutcomes, F \in SUBSET SessionMethods :
          session' = ExitScope(session, body, F)
    /\ UNCHANGED <<hostDrivers, engine, session_maker, engines, state, pc, attempt,
                   driver, opens, fails, sleeps, initResult, inits, getResult,
                   getState, sessions, closeRun, everConnected, target, createArgs,
                   lastError, probed, facade>>

(***************************************************************************)
(* _close                                                                  *)
(***************************************************************************)
\* The body of _close.
CloseBody ==
    /\ closeRun' = Append(closeRun, engine # None)
    /\ IF engine # None
       THEN /\ engines' = [engines EXCEPT ![engine] = @ + 1]
            /\ engine' = None
            /\ state' = "Closed"
       ELSE UNCHANGED <<engines, engine, state>>
    /\ UNCHANGED session_maker

\* _close called directly on the manager.
Close ==
    /\ facade.pc = "none"
    /\ pc = "idle"
    /\ Len(closeRun) < MaxCloses
    /\ CloseBody
    /\ UNCHANGED <<hostDrivers, pc, attempt, driver, opens, fails,
                   sleeps, initResult, inits, session, getResult, getState, sessions,
                   everConnected, target, createArgs, lastError, probed, facade>>

(***************************************************************************)
(* get_connection                                                          *)
(***************************************************************************)
\* connection = cls(db, host, port, timeout); connection._init_connection()
FacadeEnter ==
    /\ facade.pc = "none"
    /\ pc = "idle"
    /\ state = "Uninitialized"
    /\ inits = 0
    /\ sessions = 0
    /\ closeRun = <<>>
    /\ facade' = [facade EXCEPT !.pc = "entered"]
    /\ inits' = inits + 1
    /\ pc' = "connecting"
    /\ state' = "Connecting"
    /\ attempt' = 0
    /\ driver' = ""
    /\ opens' = 0
    /\ fails' = 0
    /\ sleeps' = <<>>
    /\ initResult' = "running"
    /\ createArgs' = NoCall
    /\ lastError' = "none"
    /\ UNCHANGED <<hostDrivers, engine, session_maker, engines, session, getResult,
                   getState, sessions, closeRun, everConnected, target, probed>>

FacadeClosesOnSuccessOnly(outcome) == outcome = "ok"

\* finally: connection._close()
FacadeCloses(outcome) == TRUE

\* except Exception as e: print(...); raise
FacadeRaised(outcome) == IF outcome = "ok" THEN "none" ELSE outcome

\* The with-block of get_connection ends: outcome is how its body ended.  A
\* session scope nested in the body has ended before.
FacadeExit ==
    /\ InBody
    /\ session.phase # "open"
    /\ \E outcome \in BodyOutcomes :
          /\ facade' = [pc |-> "exited",
                        closes |-> IF FacadeCloses(outcome) THEN 1 ELSE 0,
                        body |-> outcome,
                        raised |-> FacadeRaised(outcome)]
          /\ IF FacadeCloses(outcome)
             THEN CloseBody
             ELSE UNCHANGED <<closeRun, engines, engine, state, session_maker>>
    /\ UNCHANGED <<hostDrivers, pc, attempt, driver, opens, fails, sleeps, initResult,
                   inits, session, getResult, getState, sessions, everConnected,
                   target, createArgs, lastError, probed>>

(***************************************************************************)
(* Specification                                                           *)
(***************************************************************************)
Init ==
    /\ hostDrivers \in SUBSET HostDriverNames
    /\ engine = None
    /\ session_maker = None
    /\ engines = <<>>
    /\ state = "Uninitialized"
    /\ pc = "idle"
    /\ attempt = 0
    /\ driver = ""
    /\ opens = 0
    /\ fails = 0
    /\ sleeps = <<>>
    /\ initResult = "none"
    /\ inits = 0
    /\ session = NoSession
    /\ getResult = "none"
    /\ getState = "none"
    /\ sessions = 0
    /\ closeRun = <<>>
    /\ everConnected = FALSE
    /\ target \in Targets
    /\ createArgs = NoCall
    /\ lastError = "none"
    /\ probed = <<>>
    /\ facade = NoFacade

Next ==
    \/ InitCall
    \/ AttemptNoDriver
    \/ AttemptCreateFails
    \/ AttemptProbeFails
    \/ AttemptSucceeds
    \/ GetSession
    \/ SessionExit
    \/ Close
    \/ FacadeEnter
    \/ FacadeExit

Spec == Init /\ [][Next]_vars

(***************************************************************************)
(* Helpers for the properties                                              *)
(***************************************************************************)
\* How many times op occurs in the sequence of session calls ops.
Count(ops, op) == Cardinality({ i \in 1..Len(ops) : ops[i] = op })

\* Every a in ops comes before every b in ops.
Before(ops, a, b) ==
    \A i, j \in 1..Len(ops) : (ops[i] = a /\ ops[j] = b) => i < j

Exited == session.phase = "exited"

\* The current/last scope was opened on a Connected manager.
ScopeOfConnected == getResult = "session" /\ getState = "Connected"

InitEnded == pc = "idle" /\ initResult \notin { "none", "running" }

(***************************************************************************)
(* Properties                                                              *)
(***************************************************************************)

\* C1: get_session fails with "Database connection not initialised." whenever
\* the manager is Uninitialized or Closed (also after _close and after an
\* _init_connection that exhausted its retries), and yields a session only when
\* the manager is Connected.
C1_SessionOnlyWhenConnected ==
    getResult # "none" =>
        /\ getState \in { "Uninitialized", "Closed" } => getResult = "NotInitialized"
        /\ getResult = "session" => getState = "Connected"

\* C2: between calls, after any sequence of _init_connection, get_session and
\* _close calls, the session factory is set iff the manager is Connected and the
\* engine handle is set iff the manager is Connected.
C2_HandlesIffConnected ==
    pc = "idle" =>
        /\ session_maker # None <=> state = "Connected"
        /\ engine # None <=> state = "Connected"

\* C3: a session scope (of a Connected manager) whose body raises an error gets
\* exactly one rollback() and one close(), rollback first, and the caller
\* receives the body's error.
C3_BodyErrorRollbackCloseReraise ==
    (Exited /\ ScopeOfConnected /\ session.body = "BodyError") =>
        /\ session.ops = << "rollback", "close" >>
        /\ session.raised = "BodyError"

\* C4 as stated: a session scope (of a Connected manager) whose body completes
\* without error gets exactly one commit() and one close(), commit first, and
\* no rollback().
C4_BodyOkCommitCloseNoRollback ==
    (Exited /\ ScopeOfConnected /\ session.body = "ok") =>
        /\ Count(session.ops, "commit") = 1
        /\ Count(session.ops, "close") = 1
        /\ Before(session.ops, "commit", "close")
        /\ Count(session.ops, "rollback") = 0

\* C4 as amended: a session scope whose body completes without error gets
\* exactly one commit() and one close(), commit first; it gets no rollback()
\* when the commit succeeds, and exactly one rollback(), after the commit and
\* before the close, when the commit raises.
C4_BodyOkCommitClose ==
    (Exited /\ session.body = "ok") =>
        /\ Count(session.ops, "commit") = 1
        /\ Count(session.ops, "close") = 1
        /\ Before(session.ops, "commit", "close")
        /\ "commit" \notin session.failed => Count(session.ops, "rollback") = 0
        /\ "commit" \in session.failed => session.ops = << "commit", "rollback", "close" >>

C4_Witness ==
    /\ Exited
    /\ ScopeOfConnected
    /\ session.body = "ok"
    /\ "commit" \in session.failed
    /\ session.ops = << "commit", "rollback", "close" >>

\* C5: every session get_session creates is closed exactly once on every exit
\* path of the scope (commit succeeds or fails, rollback succeeds or fails), it
\* is not closed while the scope is open, and close() is the last call on it.
C5_ClosedExactlyOnce ==
    /\ session.phase = "open" => Count(session.ops, "close") = 0
    /\ Exited =>
          /\ Count(session.ops, "close") = 1
          /\ session.ops[Len(session.ops)] = "close"

C5_Witness ==
    /\ Exited
    /\ ScopeOfConnected
    /\ session.body = "BodyError"
    /\ "rollback" \in session.failed
    /\ Count(session.ops, "close") = 1

\* C6: when the body of a session scope (of a Connected manager) raises an
\* error and the rollback() or close() that follows fails, the caller still
\* receives the body's error.
C6_CleanupFailureKeepsBodyError ==
    (/\ Exited
     /\ ScopeOfConnected
     /\ session.body = "BodyError"
     /\ session.failed \cap { "rollback", "close" } # {})
        => session.raised = "BodyError"

\* C7: an _init_connection whose first k < max_retries attempts fail with a
\* caught error and whose next attempt succeeds has, when it returns, slept
\* exactly k times and called create_engine exactly k + 1 times, and the manager
\* is Connected; no call raises ConnectionFailed after fewer than max_retries
\* failures, and before every attempt the failures so far equal the loop index.
C7_RetryThenSuccess ==
    [][ /\ (pc = "connecting" /\ pc' = "idle" /\ initResult' = "ok") =>
              /\ fails' < max_retries
              /\ Len(sleeps') = fails'
              /\ opens' = fails' + 1
              /\ state' = "Connected"
              /\ engine' # None
        /\ (pc = "connecting" /\ pc' = "idle" /\ initResult' = "ConnectionFailed") =>
              fails' = max_retries
        /\ pc' = "connecting" => (attempt' = fails' /\ fails' < max_retries)
      ]_vars

C7_Witness ==
    /\ pc = "idle"
    /\ initResult = "ok"
    /\ state = "Connected"
    /\ fails = max_retries - 1
    /\ Len(sleeps) = max_retries - 1
    /\ opens = max_retries

\* C8: an _init_connection whose every attempt fails raises ConnectionFailed
\* after exactly max_retries - 1 sleeps and leaves the manager Closed, with no
\* engine handle and no session factory.
C8_ExhaustedLeavesClosed ==
    (pc = "idle" /\ initResult = "ConnectionFailed") =>
        /\ Len(sleeps) = max_retries - 1
        /\ state = "Closed"
        /\ engine = None
        /\ session_maker = None

\* C9: when no supported driver is installed, _init_connection fails at once
\* with NoDriverFound: no create_engine call, no sleep, no retry.
C9_NoDriverFailsImmediately ==
    /\ (InitEnded /\ AvailableDrivers = {}) => initResult = "NoDriverFound"
    /\ initResult = "NoDriverFound" =>
          /\ AvailableDrivers = {}
          /\ opens = 0
          /\ sleeps = <<>>
          /\ fails = 0
          /\ attempt = 0
    /\ (pc = "connecting" /\ AvailableDrivers = {}) => (attempt = 0 /\ opens = 0)

C9_Witness ==
    /\ pc = "idle"
    /\ initResult = "NoDriverFound"
    /\ hostDrivers = { "Other Driver" }
    /\ opens = 0
    /\ sleeps = <<>>

\* C10: _close called twice in succession disposes the engine at most once;
\* called on a manager that was never successfully initialised it disposes
\* nothing.
C10_CloseIdempotent ==
    /\ Cardinality({ i \in 1..Len(closeRun) : closeRun[i] }) <= 1
    /\ (~everConnected) => \A i \in 1..Len(closeRun) : ~closeRun[i]

\* C11: through get_connection, once _init_connection has succeeded: while the
\* body runs _close has not been called and the yielded engine is not disposed;
\* when the with-block has ended, whatever the body's outcome, get_connection
\* has called _close exactly once, the yielded engine has been disposed exactly
\* once, and an error raised by the body is the error the caller receives.
C11_FacadeClosesOnceAfterBody ==
    /\ InBody =>
          /\ facade.closes = 0
          /\ engine # None
          /\ engines[engine] = 0
    /\ facade.pc = "exited" =>
          /\ facade.closes = 1
          /\ engine = None
          /\ engines[Len(engines)] = 1
          /\ probed[Len(engines)] = "ok"
          /\ facade.body = "ok" => facade.raised = "none"
          /\ facade.body # "ok" => facade.raised = facade.body

C11_Witness ==
    /\ facade.pc = "exited"
    /\ facade.body = "BodyError"
    /\ facade.raised = "BodyError"
    /\ facade.closes = 1
    /\ engines[Len(engines)] = 1

\* C12: through get_connection, if _init_connection fails the body is never
\* invoked and _close still runs before the failure reaches the caller.
C12_FailedInitStillCloses ==
    FacadeFailed =>
        /\ facade.body = "none"
        /\ facade.closes = 1

\* C13: at every point the number of engines created for the manager and not
\* yet disposed is at most one.
C13_AtMostOneLiveEngine ==
    Cardinality({ i \in 1..Len(engines) : engines[i] = 0 }) <= 1

\* C14: the delay for 0-based attempt index a is 1 * 2^a (1, 2, 4, 8 for
\* a = 0..3), and the waits of an _init_connection are, in order, 1 then 2:
\* the i-th wait is the delay of attempt index i - 1.
C14_BackoffDelays ==
    /\ <<Delay(0), Delay(1), Delay(2), Delay(3)>> = <<1, 2, 4, 8>>
    /\ Len(sleeps) <= 2
    /\ \A i \in 1..Len(sleeps) : sleeps[i] = <<1, 2>>[i]

C14_Witness ==
    /\ sleeps = <<1, 2>>
    /\ fails >= 2

C16_ResolveInIntersection ==
    /\ driver # "" => (driver \in SUPPORTED_DRIVERS /\ driver \in hostDrivers)
    /\ opens > 0 => driver # ""
    /\ lastError = "NoDriverFound" =>
          /\ SUPPORTED_DRIVERS \cap hostDrivers = {}
          /\ driver = ""
          /\ engine = None
          /\ session_maker = None
          /\ engines = <<>>
          /\ createArgs = NoCall
    /\ (InitEnded /\ SUPPORTED_DRIVERS \cap hostDrivers = {}) => lastError = "NoDriverFound"

C16_Witness ==
    /\ Cardinality(SUPPORTED_DRIVERS \cap hostDrivers) = 2
    /\ "Other Driver" \in hostDrivers
    /\ opens > 0
    /\ driver \in SUPPORTED_DRIVERS \cap hostDrivers

\* C17: the descriptor passed to create_engine is exactly
\* mssql+pyodbc://<host>:<port>/<database>?driver=<driver>&trusted_connection=yes
\* for the manager's target and the resolved driver, and the timeout is passed
\* apart from it, as the connect-time option "timeout".
C17_DescriptorFormat ==
    createArgs # NoCall =>
        /\ createArgs.url =
              "mssql+pyodbc://" \o target.host \o ":" \o ToString(target.port) \o "/"
                  \o target.db \o "?driver=" \o driver \o "&trusted_connection=yes"
        /\ (target.db = "sample" /\ driver = "ODBC Driver 17 for SQL Server") =>
              createArgs.url =
                 "mssql+pyodbc://localhost:1433/sample?driver=ODBC Driver 17 for SQL Server&trusted_connection=yes"
        /\ (target.db = "test_db" /\ driver = "SQL Server Native Client 11.0") =>
              createArgs.url =
                 "mssql+pyodbc://test_host:1433/test_db?driver=SQL Server Native Client 11.0&trusted_connection=yes"
        /\ createArgs.connect_args = [timeout |-> target.timeout]
        /\ createArgs.connect_args.timeout = 30

C17_Witness ==
    /\ opens > 0
    /\ createArgs.url =
          "mssql+pyodbc://localhost:1433/sample?driver=ODBC Driver 17 for SQL Server&trusted_connection=yes"
    /\ createArgs.connect_args.timeout = 30

\* C18: _init_connection returns normally only in a step in which the engine
\* it stores was created and its probe succeeded; an attempt whose probe fails
\* is a failed attempt; and a successful probe ends the call, so that exactly
\* one probe succeeds in a call that returns.
C18_SuccessOnlyAfterProbe ==
    [][ /\ (pc = "connecting" /\ pc' = "idle" /\ initResult' = "ok") =>
              /\ Len(engines') = Len(engines) + 1
              /\ engine' = Len(engines')
              /\ session_maker' = engine'
              /\ probed'[engine'] = "ok"
        /\ (Len(probed') = Len(probed) + 1 /\ probed'[Len(probed')] = "failed") =>
              /\ lastError' # "none"
              /\ initResult' # "ok"
        /\ (Len(probed') = Len(probed) + 1 /\ probed'[Len(probed')] = "ok") =>
              /\ pc' = "idle"
              /\ initResult' = "ok"
      ]_vars

C18_Witness ==
    /\ pc = "idle"
    /\ initResult = "ok"
    /\ engine # None
    /\ probed[engine] = "ok"
    /\ Len(probed) = 3
    /\ probed[1] = "failed"

\* C19: commit() is never called on a session whose body raised, and close()
\* is the last call on every session: nothing is called on it after close().
C19_NoCommitAfterErrorCloseLast ==
    /\ session.body \in { "BodyError", "BodyInterrupt" } =>
          Count(session.ops, "commit") = 0
    /\ \A i \in 1..Len(session.ops) :
          session.ops[i] = "close" => i = Len(session.ops)
    /\ session.phase = "open" => session.ops = <<>>

C19_Witness ==
    /\ Exited
    /\ ScopeOfConnected
    /\ session.body = "BodyError"
    /\ session.ops = << "rollback", "close" >>

\* C20: with a session scope nested in the body of get_connection, the engine
\* the session is bound to is not disposed while the scope is open; when it is
\* disposed the scope has ended, close() was the last call on the session, and
\* the commit or rollback of a body that ended normally or with an error has
\* happened.
C20_SessionEndsBeforeDispose ==
    (facade.pc # "none" /\ session.phase # "none") =>
        /\ session.phase = "open" =>
              /\ engine = session.bound
              /\ engines[session.bound] = 0
        /\ engines[session.bound] > 0 =>
              /\ facade.pc = "exited"
              /\ session.phase = "exited"
              /\ Len(session.ops) > 0
              /\ session.ops[Len(session.ops)] = "close"
              /\ session.body = "ok" => session.ops[1] = "commit"
              /\ session.body = "BodyError" => session.ops[1] = "rollback"

C20_Witness ==
    /\ facade.pc = "exited"
    /\ session.phase = "exited"
    /\ session.body = "BodyError"
    /\ "rollback" \in session.failed
    /\ engines[session.bound] = 1

====
